---- MODULE Spec2Model ----
(***************************************************************************)
(* Model of src/bot.py: the calendar reconciliation task check_calendar,   *)
(* its retry loops (fetch_static_html_with_retry, create_event_safely,     *)
(* send_announcement_safely, the inline fetch_scheduled_events loop), the  *)
(* asyncio lock calendar_check_lock and the manual refresh_events command. *)
(*                                                                         *)
(* Every action is the code between two suspension points (an awaited     *)
(* network call or an asyncio.sleep) of one coroutine; the head of the     *)
(* candidate loop is a step boundary of its own.  The Discord calls fail   *)
(* by discord.HTTPException (status 429 or another status); the source     *)
(* fetch fails by any exception.                                           *)
(***************************************************************************)
EXTENDS Integers, Sequences, FiniteSets, TLC

\* ---------------------------------------------------------------- bounds
MaxCand == 2                      \* longest candidate sequence of the feed

\* ------------------------------------------------------ program constants
MaxRetries == 3                   \* max_retries=3 / range(3)
PaceDelay == 1                    \* asyncio.sleep(1) between created events

\* ------------------------------------------------------------- universes
Procs == {"timer", "manual"}      \* tasks.loop trigger, refresh_events caller

CandidatePool ==
    { [name |-> "Midlakes Team A", start_time |-> 1],
      [name |-> "Midlakes Team B", start_time |-> 2] }

Key(e) == <<e.name, e.start_time>>

Keys == { Key(e) : e \in CandidatePool }

KeysOf(s) == { Key(s[i]) : i \in 1..Len(s) }

CandidateSeqs == UNION { [1..n -> CandidatePool] : n \in 0..MaxCand }

\* The schedule page: whether its <h1> carries a 4-digit year, and its
\* well-formed .Upcoming blocks in page order.
Pages ==
    { [year |-> TRUE, blocks |-> s] : s \in CandidateSeqs }
        \cup { [year |-> FALSE, blocks |-> << >>] }

\* discord.HTTPException instances a Discord call can raise: a status, and
\* whether the exception object carries a retry_after attribute.
HTTPFailures ==
    { [status |-> 500, advised |-> FALSE, retry_after |-> 0],
      [status |-> 429, advised |-> FALSE, retry_after |-> 0],
      [status |-> 429, advised |-> TRUE,  retry_after |-> 5] }

\* A Discord call that returns normally.
Success == [status |-> 200, advised |-> FALSE, retry_after |-> 0]

Responses == {Success} \cup HTTPFailures

\* Any exception of the source fetch (requests error, non-200 status).
FetchFailure == [status |-> 0, advised |-> FALSE, retry_after |-> 0]

NoneVal == {<<"None", 0>>}        \* Python None for `existing`

NoWait == [secs |-> 0, fail |-> FetchFailure, backoff |-> FALSE]

NoEnv == [env |-> "none", how |-> "none", tries |-> 0, fails |-> 0]

RunStates ==
    { "fetch_call", "fetch_sleep", "list_call", "list_sleep", "loop",
      "create_call", "create_sleep", "notify_call", "notify_sleep", "pace" }

BackoffStates == { "fetch_sleep", "list_sleep", "create_sleep", "notify_sleep" }

VARIABLES
    locked,          \* calendar_check_lock is held
    feed,            \* content of the schedule page
    downstream,      \* keys of the guild's scheduled events
    prev,            \* the last finished run: downstream keys at its end
    pc,              \* position of each trigger's coroutine
    outcome,         \* what the last check_calendar call of a trigger logged
    reply,           \* last message refresh_events sent back
    new_events,      \* check_calendar: parsed candidates
    existing,        \* check_calendar: fetched event keys, or None
    existing_keys,   \* check_calendar: the dedup index
    events_created,  \* check_calendar: counter
    idx,             \* check_calendar: position of `for e in new_events`
    attempt,         \* loop variable of the active retry loop
    tries,           \* invocations of the wrapped call in the active retry loop
    fails,           \* failed invocations in the active retry loop
    wait,            \* the asyncio.sleep in progress
    log,             \* downstream effects of the run, in order
    issued,          \* kinds of call the run has issued
    clean,           \* no call of the run has failed so far
    envRes,          \* how the retry loop that ended in the last step ended
    presence,        \* update_presence: position and locals of its cycle
    status           \* the activity name the bot shows

vars == << locked, feed, downstream, prev, pc, outcome, reply, new_events,
           existing, existing_keys, events_created, idx, attempt, tries,
           fails, wait, log, issued, clean, envRes, presence, status >>

\* ------------------------------------------------------------- presence

SecondsPerHour == 3600            \* delta.total_seconds() // 3600

\* scheduled events (name, start time in seconds) of the presence checks
PresenceEvents ==
    { <<"Midlakes Team A", 19440>>, <<"Midlakes Team A", 3600>>,
      <<"Midlakes Team B", 3600>>, <<"Midlakes Team B", 7199>>,
      <<"Midlakes Team B", 0>> }

\* readings of discord.utils.utcnow(), in seconds
NowValues == {0, 3600}

NoStatus == [text |-> "", hours |-> 0, name |-> ""]

\* line 532
FallbackStatus ==
    [text |-> "the Midlakes United Schedule", hours |-> 0, name |-> ""]

PresenceIdle ==
    [ pc |-> "idle", attempt |-> 0, tries |-> 0, fails |-> 0, secs |-> 0,
      existing |-> NoneVal, now |-> 0, status_msg |-> NoStatus,
      outcome |-> "none", held |-> FALSE ]

UpcomingNotStrict(ex, now) == { e \in ex : e[2] >= now }

\* [e for e in existing if e.start_time > discord.utils.utcnow()]
Upcoming(ex, now) == { e \in ex : e[2] > now }

\* sorted(..., key=lambda x: x.start_time)[0]: an event of least start time
Earliest(up) == { e \in up : \A f \in up : e[2] <= f[2] }

\* lines 527-529
MatchdayStatus(e, now) ==
    [ text |-> "Matchday in",
      hours |-> (e[2] - now) \div SecondsPerHour,
      name |-> e[1] ]

\* lines 522-533: the messages the cycle may compute
StatusMessages(ex, now) ==
    IF Upcoming(ex, now) # {}
    THEN { MatchdayStatus(e, now) : e \in Earliest(Upcoming(ex, now)) }
    ELSE { FallbackStatus }

\* ------------------------------------------------------------ the gate

GateNeverBusy == FALSE

\* calendar_check_lock.locked()
GateBusy == locked

LockNotTaken == FALSE

\* state of the lock once `async with calendar_check_lock` has been entered
LockAcquired == TRUE

LockKeptOnReturn(how) == how = "stopped"

\* state of the lock once the `async with` block has been left
LockAfterExit(how) == FALSE

\* where control goes when check_calendar returns
Return(p) == IF p = "timer" THEN "idle" ELSE "reply"

\* ------------------------------------------------------- retry handlers

IsRateLimited(e) == e.status = 429

\* getattr(e, 'retry_after', 2 ** attempt)
RetryAfter(e, a) == IF e.advised THEN e.retry_after ELSE 2 ^ a

\* the except-branch of the Discord retry loops
HandlerRaises(e, a) == ~IsRateLimited(e) /\ a = MaxRetries - 1

HandlerWaitExponential(e, a) == 2 ^ a

\* the duration of the sleep in the except-branch of the Discord retry loops
HandlerWait(e, a) == IF IsRateLimited(e) THEN RetryAfter(e, a) ELSE 2 ^ a

\* the except-branch of fetch_static_html_with_retry
FetchRaises(a) == a = MaxRetries - 1

FetchWait(a) == 2 ^ a

NextAttemptFreeRateLimit(a, e) == IF e.status = 429 THEN a ELSE a + 1

\* `for attempt in range(max_retries)`: the next value of the loop variable
NextAttempt(a, e) == a + 1

BuildIndexEmpty(ex) == {}

\* {(ev.name, ev.start_time) for ev in existing}
BuildIndex(ex) == ex

NeverDuplicate(k, index) == FALSE

\* `if key in existing_keys`
IsDuplicate(k, index) == k \in index

ExistingNeverMissing(ex) == FALSE

\* `if existing is None`
ExistingMissing(ex) == ex = NoneVal

ParseNeverRaises(page) == FALSE

\* parse_schedule, lines 232-234: no year in the page header
ParseRaises(page) == ~page.year

AfterErrorBreak(i, n) == n + 1

AfterErrorStay(i, n) == i

\* lines 438-439: the exception of candidate i (of n) is caught inside the
\* loop, which goes on with the next candidate
AfterError(i, n) == i + 1

IndexAddNothing(index, k) == index

\* existing_keys.add(key), line 432
IndexAdd(index, k) == index \cup {k}

NoneEventAccepted == FALSE

\* line 424: `event.name` raises AttributeError when create_event_safely
\* returned None
NoneEventRaises == TRUE

\* lines 445-447: `except Exception` logs every exception of the run, so
\* no outcome of a run reaches the caller of check_calendar as an exception
Escapes(how) == FALSE

Ended(env, how, t, f) == [env |-> env, how |-> how, tries |-> t, fails |-> f]

Sleep(secs, e) == [secs |-> secs, fail |-> e, backoff |-> TRUE]

\* nothing runs: the state of the tasks right after on_ready started them
Idle ==
    /\ locked = FALSE
    /\ presence = PresenceIdle
    /\ status = NoStatus
    /\ prev = [ran |-> FALSE, down |-> {}]
    /\ pc = [p \in Procs |-> "idle"]
    /\ outcome = [p \in Procs |-> "none"]
    /\ reply = [p \in Procs |-> "none"]
    /\ new_events = [p \in Procs |-> << >>]
    /\ existing = [p \in Procs |-> NoneVal]
    /\ existing_keys = [p \in Procs |-> {}]
    /\ events_created = [p \in Procs |-> 0]
    /\ idx = [p \in Procs |-> 1]
    /\ attempt = [p \in Procs |-> 0]
    /\ tries = [p \in Procs |-> 0]
    /\ fails = [p \in Procs |-> 0]
    /\ wait = [p \in Procs |-> NoWait]
    /\ log = [p \in Procs |-> << >>]
    /\ issued = [p \in Procs |-> {}]
    /\ clean = [p \in Procs |-> TRUE]
    /\ envRes = [p \in Procs |-> NoEnv]

Init ==
    /\ feed \in Pages
    /\ downstream \in SUBSET Keys
    /\ Idle

Upd(f, p, v) == [f EXCEPT ![p] = v]

\* ------------------------------------------------- entering and leaving

\* lines 360-362: the gate is held, the call logs and returns
Skip(p) ==
    /\ pc' = Upd(pc, p, Return(p))
    /\ outcome' = Upd(outcome, p, "noop")
    /\ UNCHANGED << presence, status, locked, feed, downstream, prev, reply, new_events,
                    existing, existing_keys, events_created, idx, attempt,
                    tries, fails, wait, log, issued, clean, envRes >>

\* lines 364-370: take the gate, start the source fetch
Enter(p) ==
    /\ locked' = LockAcquired
    /\ pc' = Upd(pc, p, "fetch_call")
    /\ outcome' = Upd(outcome, p, "started")
    /\ new_events' = Upd(new_events, p, << >>)
    /\ existing' = Upd(existing, p, NoneVal)
    /\ existing_keys' = Upd(existing_keys, p, {})
    /\ events_created' = Upd(events_created, p, 0)
    /\ idx' = Upd(idx, p, 1)
    /\ attempt' = Upd(attempt, p, 0)
    /\ tries' = Upd(tries, p, 0)
    /\ fails' = Upd(fails, p, 0)
    /\ wait' = Upd(wait, p, NoWait)
    /\ log' = Upd(log, p, << >>)
    /\ issued' = Upd(issued, p, {})
    /\ clean' = Upd(clean, p, TRUE)
    /\ envRes' = Upd(envRes, p, NoEnv)
    /\ UNCHANGED << presence, status, feed, downstream, prev, reply >>

\* check_calendar, lines 359-364
CheckCalendar(p) == IF GateBusy THEN Skip(p) ELSE Enter(p)

\* leaving the `async with` block: `return`, the end of the body, or the
\* `except Exception` of lines 445-447; d is the downstream state left behind
ExitRun(p, how, d) ==
    /\ locked' = LockAfterExit(how)
    /\ pc' = Upd(pc, p, Return(p))
    /\ outcome' = Upd(outcome, p, how)
    /\ prev' = [ran |-> TRUE, down |-> d]

\* ------------------------------------------------------------- triggers

\* @tasks.loop(hours=24): the loop calls check_calendar again only after the
\* previous call of the loop has returned
TimerFire ==
    /\ pc["timer"] = "idle"
    /\ CheckCalendar("timer")

\* refresh_events, lines 465-470 and 478-480
Command(p) ==
    /\ p # "timer"
    /\ pc[p] = "idle"
    /\ \E authorized \in BOOLEAN :
          IF authorized
          THEN /\ pc' = Upd(pc, p, "invoke")
               /\ reply' = Upd(reply, p, "refreshing")
          ELSE /\ pc' = pc
               /\ reply' = Upd(reply, p, "denied")
    /\ UNCHANGED << presence, status, locked, feed, downstream, prev, outcome, new_events,
                    existing, existing_keys, events_created, idx, attempt,
                    tries, fails, wait, log, issued, clean, envRes >>

\* refresh_events, line 472
Invoke(p) ==
    /\ p # "timer"
    /\ pc[p] = "invoke"
    /\ CheckCalendar(p)

\* refresh_events, lines 473-474: check_calendar returned
ReplySend(p) ==
    /\ pc[p] = "reply"
    /\ pc' = Upd(pc, p, "idle")
    /\ reply' = Upd(reply, p,
            IF Escapes(outcome[p]) THEN "failed" ELSE "complete")
    /\ UNCHANGED << presence, status, locked, feed, downstream, prev, outcome, new_events,
                    existing, existing_keys, events_created, idx, attempt,
                    tries, fails, wait, log, issued, clean, envRes >>

\* --------------------------------------------------------- source fetch

\* fetch_static_html_with_retry, one pass of the loop body (lines 177-195),
\* and on success lines 371-385 of check_calendar
FetchAttempt(p) ==
    /\ pc[p] = "fetch_call"
    /\ issued' = Upd(issued, p, issued[p] \cup {"fetch"})
    /\ \E ok \in BOOLEAN :
        IF ok
        THEN
          /\ envRes' = Upd(envRes, p, Ended("fetch", "ok", tries[p] + 1, fails[p]))
          /\ UNCHANGED clean
          /\ tries' = Upd(tries, p, 0)
          /\ fails' = Upd(fails, p, 0)
          /\ attempt' = Upd(attempt, p, 0)
          /\ wait' = Upd(wait, p, NoWait)
          /\ IF ParseRaises(feed)
             THEN \* parse_schedule raises, caught at line 445
                  /\ ExitRun(p, "aborted", downstream)
                  /\ UNCHANGED new_events
             ELSE \E guild \in BOOLEAN, channel \in BOOLEAN :
                    IF guild /\ channel
                    THEN /\ pc' = Upd(pc, p, "list_call")
                         /\ new_events' = Upd(new_events, p, feed.blocks)
                         /\ UNCHANGED << locked, outcome, prev >>
                    ELSE \* lines 375-382: `return`
                         /\ ExitRun(p, "stopped", downstream)
                         /\ new_events' = Upd(new_events, p, feed.blocks)
        ELSE
          /\ tries' = Upd(tries, p, tries[p] + 1)
          /\ fails' = Upd(fails, p, fails[p] + 1)
          /\ clean' = Upd(clean, p, FALSE)
          /\ UNCHANGED << attempt, new_events >>
          /\ IF FetchRaises(attempt[p])
             THEN /\ envRes' = Upd(envRes, p,
                        Ended("fetch", "raised", tries[p] + 1, fails[p] + 1))
                  /\ wait' = Upd(wait, p, NoWait)
                  /\ ExitRun(p, "aborted", downstream)
             ELSE /\ envRes' = Upd(envRes, p, NoEnv)
                  /\ wait' = Upd(wait, p, Sleep(FetchWait(attempt[p]), FetchFailure))
                  /\ pc' = Upd(pc, p, "fetch_sleep")
                  /\ UNCHANGED << locked, outcome, prev >>
    /\ UNCHANGED << presence, status, feed, downstream, reply, existing, existing_keys,
                    events_created, idx, log >>

\* line 195: the backoff sleep is over, the loop goes on
FetchBackoff(p) ==
    /\ pc[p] = "fetch_sleep"
    /\ attempt' = Upd(attempt, p, NextAttempt(attempt[p], wait[p].fail))
    /\ wait' = Upd(wait, p, NoWait)
    /\ pc' = Upd(pc, p, "fetch_call")
    /\ UNCHANGED << presence, status, locked, feed, downstream, prev, outcome, reply,
                    new_events, existing, existing_keys, events_created,
                    idx, tries, fails, log, issued, clean, envRes >>

\* ------------------------------------------------- existing-event fetch

\* check_calendar lines 387-401, one pass of the loop body, and on success
\* lines 403-409
ListAttempt(p) ==
    /\ pc[p] = "list_call"
    /\ issued' = Upd(issued, p, issued[p] \cup {"list"})
    /\ \E r \in Responses :
        IF r = Success
        THEN
          /\ envRes' = Upd(envRes, p, Ended("list", "ok", tries[p] + 1, fails[p]))
          /\ UNCHANGED clean
          /\ existing' = Upd(existing, p, downstream)
          /\ existing_keys' = Upd(existing_keys, p, BuildIndex(downstream))
          /\ events_created' = Upd(events_created, p, 0)
          /\ idx' = Upd(idx, p, 1)
          /\ tries' = Upd(tries, p, 0)
          /\ fails' = Upd(fails, p, 0)
          /\ attempt' = Upd(attempt, p, 0)
          /\ wait' = Upd(wait, p, NoWait)
          /\ pc' = Upd(pc, p, "loop")
          /\ UNCHANGED << locked, outcome, prev >>
        ELSE
          /\ tries' = Upd(tries, p, tries[p] + 1)
          /\ fails' = Upd(fails, p, fails[p] + 1)
          /\ clean' = Upd(clean, p, FALSE)
          /\ UNCHANGED << attempt, existing, existing_keys, events_created, idx >>
          /\ IF HandlerRaises(r, attempt[p])
             THEN \* line 399: `raise`, caught at line 445
                  /\ envRes' = Upd(envRes, p,
                        Ended("list", "raised", tries[p] + 1, fails[p] + 1))
                  /\ wait' = Upd(wait, p, NoWait)
                  /\ ExitRun(p, "aborted", downstream)
             ELSE /\ envRes' = Upd(envRes, p, NoEnv)
                  /\ wait' = Upd(wait, p, Sleep(HandlerWait(r, attempt[p]), r))
                  /\ pc' = Upd(pc, p, "list_sleep")
                  /\ UNCHANGED << locked, outcome, prev >>
    /\ UNCHANGED << presence, status, feed, downstream, reply, new_events, log >>

\* lines 396/401: the sleep is over; the loop goes on, or ends with
\* `existing` still None (lines 403-405)
ListBackoff(p) ==
    /\ pc[p] = "list_sleep"
    /\ wait' = Upd(wait, p, NoWait)
    /\ LET a == NextAttempt(attempt[p], wait[p].fail) IN
        IF a < MaxRetries
        THEN /\ attempt' = Upd(attempt, p, a)
             /\ pc' = Upd(pc, p, "list_call")
             /\ envRes' = Upd(envRes, p, NoEnv)
             /\ UNCHANGED << locked, outcome, prev, existing, existing_keys,
                             events_created, idx, tries, fails >>
        ELSE /\ envRes' = Upd(envRes, p, Ended("list", "none", tries[p], fails[p]))
             /\ UNCHANGED << attempt, existing, tries, fails >>
             /\ IF ExistingMissing(existing[p])
                THEN /\ ExitRun(p, "stopped", downstream)
                     /\ UNCHANGED << existing_keys, events_created, idx >>
                ELSE /\ existing_keys' = Upd(existing_keys, p, {})
                     /\ events_created' = Upd(events_created, p, 0)
                     /\ idx' = Upd(idx, p, 1)
                     /\ pc' = Upd(pc, p, "loop")
                     /\ UNCHANGED << locked, outcome, prev >>
    /\ UNCHANGED << presence, status, feed, downstream, reply, new_events, log, issued, clean >>

\* ------------------------------------------------------- candidate loop

\* `for e in new_events` (lines 412-420): the next candidate is skipped or
\* its creation starts; past the last one the run completes (lines 441-443)
NextCandidate(p) ==
    /\ pc[p] = "loop"
    /\ envRes' = Upd(envRes, p, NoEnv)
    /\ IF idx[p] > Len(new_events[p])
       THEN /\ ExitRun(p, "completed", downstream)
            /\ UNCHANGED << idx, attempt, tries, fails >>
       ELSE IF IsDuplicate(Key(new_events[p][idx[p]]), existing_keys[p])
       THEN /\ idx' = Upd(idx, p, idx[p] + 1)
            /\ UNCHANGED << locked, pc, outcome, prev, attempt, tries, fails >>
       ELSE /\ pc' = Upd(pc, p, "create_call")
            /\ attempt' = Upd(attempt, p, 0)
            /\ tries' = Upd(tries, p, 0)
            /\ fails' = Upd(fails, p, 0)
            /\ UNCHANGED << locked, outcome, prev, idx >>
    /\ UNCHANGED << presence, status, feed, downstream, reply, new_events, existing,
                    existing_keys, events_created, wait, log, issued, clean >>

\* create_event_safely, one pass of the loop body (lines 287-310); a raised
\* exception is caught at line 438 and the loop goes to the next candidate
CreateAttempt(p) ==
    /\ pc[p] = "create_call"
    /\ issued' = Upd(issued, p, issued[p] \cup {"create"})
    /\ LET k == Key(new_events[p][idx[p]]) IN
       \E r \in Responses :
        IF r = Success
        THEN
          /\ envRes' = Upd(envRes, p, Ended("create", "ok", tries[p] + 1, fails[p]))
          /\ UNCHANGED clean
          /\ downstream' = downstream \cup {k}
          /\ log' = Upd(log, p, Append(log[p], <<"create", k>>))
          /\ pc' = Upd(pc, p, "notify_call")
          /\ attempt' = Upd(attempt, p, 0)
          /\ tries' = Upd(tries, p, 0)
          /\ fails' = Upd(fails, p, 0)
          /\ wait' = Upd(wait, p, NoWait)
          /\ UNCHANGED idx
        ELSE
          /\ tries' = Upd(tries, p, tries[p] + 1)
          /\ fails' = Upd(fails, p, fails[p] + 1)
          /\ clean' = Upd(clean, p, FALSE)
          /\ UNCHANGED << attempt, downstream, log >>
          /\ IF HandlerRaises(r, attempt[p])
             THEN /\ envRes' = Upd(envRes, p,
                        Ended("create", "raised", tries[p] + 1, fails[p] + 1))
                  /\ wait' = Upd(wait, p, NoWait)
                  /\ idx' = Upd(idx, p, AfterError(idx[p], Len(new_events[p])))
                  /\ pc' = Upd(pc, p, "loop")
             ELSE /\ envRes' = Upd(envRes, p, NoEnv)
                  /\ wait' = Upd(wait, p, Sleep(HandlerWait(r, attempt[p]), r))
                  /\ pc' = Upd(pc, p, "create_sleep")
                  /\ UNCHANGED idx
    /\ UNCHANGED << presence, status, locked, feed, prev, outcome, reply, new_events, existing,
                    existing_keys, events_created >>

\* lines 304/310: the sleep is over; the loop goes on, or ends and the
\* function returns None, so that `event.name` (line 424) raises and line
\* 438 catches it
CreateBackoff(p) ==
    /\ pc[p] = "create_sleep"
    /\ wait' = Upd(wait, p, NoWait)
    /\ LET a == NextAttempt(attempt[p], wait[p].fail) IN
        IF a < MaxRetries
        THEN /\ attempt' = Upd(attempt, p, a)
             /\ pc' = Upd(pc, p, "create_call")
             /\ envRes' = Upd(envRes, p, NoEnv)
             /\ UNCHANGED << idx, tries, fails >>
        ELSE /\ envRes' = Upd(envRes, p, Ended("create", "none", tries[p], fails[p]))
             /\ IF NoneEventRaises
                THEN /\ idx' = Upd(idx, p, AfterError(idx[p], Len(new_events[p])))
                     /\ pc' = Upd(pc, p, "loop")
                     /\ UNCHANGED << attempt, tries, fails >>
                ELSE /\ pc' = Upd(pc, p, "notify_call")
                     /\ attempt' = Upd(attempt, p, 0)
                     /\ tries' = Upd(tries, p, 0)
                     /\ fails' = Upd(fails, p, 0)
                     /\ UNCHANGED idx
    /\ UNCHANGED << presence, status, locked, feed, downstream, prev, outcome, reply,
                    new_events, existing, existing_keys, events_created,
                    log, issued, clean >>

\* lines 431-436, reached when send_announcement_safely returns
Announced(p) ==
    /\ existing_keys' = Upd(existing_keys, p,
            IndexAdd(existing_keys[p], Key(new_events[p][idx[p]])))
    /\ events_created' = Upd(events_created, p, events_created[p] + 1)
    /\ wait' = Upd(wait, p, [secs |-> PaceDelay, fail |-> FetchFailure,
                             backoff |-> FALSE])
    /\ pc' = Upd(pc, p, "pace")

\* send_announcement_safely, one pass of the loop body (lines 325-340)
NotifyAttempt(p) ==
    /\ pc[p] = "notify_call"
    /\ issued' = Upd(issued, p, issued[p] \cup {"notify"})
    /\ LET k == Key(new_events[p][idx[p]]) IN
       \E r \in Responses :
        IF r = Success
        THEN
          /\ envRes' = Upd(envRes, p, Ended("notify", "ok", tries[p] + 1, fails[p]))
          /\ UNCHANGED clean
          /\ log' = Upd(log, p, Append(log[p], <<"notify", k>>))
          /\ attempt' = Upd(attempt, p, 0)
          /\ tries' = Upd(tries, p, 0)
          /\ fails' = Upd(fails, p, 0)
          /\ Announced(p)
          /\ UNCHANGED idx
        ELSE
          /\ tries' = Upd(tries, p, tries[p] + 1)
          /\ fails' = Upd(fails, p, fails[p] + 1)
          /\ clean' = Upd(clean, p, FALSE)
          /\ UNCHANGED << attempt, log, existing_keys, events_created >>
          /\ IF HandlerRaises(r, attempt[p])
             THEN /\ envRes' = Upd(envRes, p,
                        Ended("notify", "raised", tries[p] + 1, fails[p] + 1))
                  /\ wait' = Upd(wait, p, NoWait)
                  /\ idx' = Upd(idx, p, AfterError(idx[p], Len(new_events[p])))
                  /\ pc' = Upd(pc, p, "loop")
             ELSE /\ envRes' = Upd(envRes, p, NoEnv)
                  /\ wait' = Upd(wait, p, Sleep(HandlerWait(r, attempt[p]), r))
                  /\ pc' = Upd(pc, p, "notify_sleep")
                  /\ UNCHANGED idx
    /\ UNCHANGED << presence, status, locked, feed, downstream, prev, outcome, reply,
                    new_events, existing >>

\* lines 334/340: the sleep is over; the loop goes on, or ends and the
\* function returns, so that lines 431-436 run
NotifyBackoff(p) ==
    /\ pc[p] = "notify_sleep"
    /\ LET a == NextAttempt(attempt[p], wait[p].fail) IN
        IF a < MaxRetries
        THEN /\ attempt' = Upd(attempt, p, a)
             /\ pc' = Upd(pc, p, "notify_call")
             /\ wait' = Upd(wait, p, NoWait)
             /\ envRes' = Upd(envRes, p, NoEnv)
             /\ UNCHANGED << existing_keys, events_created >>
        ELSE /\ envRes' = Upd(envRes, p, Ended("notify", "none", tries[p], fails[p]))
             /\ Announced(p)
             /\ UNCHANGED attempt
    /\ UNCHANGED << presence, status, locked, feed, downstream, prev, outcome, reply,
                    new_events, existing, idx, tries, fails, log, issued, clean >>

\* line 436: the sleep is over, the loop goes to the next candidate
PaceDone(p) ==
    /\ pc[p] = "pace"
    /\ wait' = Upd(wait, p, NoWait)
    /\ idx' = Upd(idx, p, idx[p] + 1)
    /\ pc' = Upd(pc, p, "loop")
    /\ envRes' = Upd(envRes, p, NoEnv)
    /\ UNCHANGED << presence, status, locked, feed, downstream, prev, outcome, reply,
                    new_events, existing, existing_keys, events_created,
                    attempt, tries, fails, log, issued, clean >>

\* ------------------------------------------------------ presence cycle

PresenceExistingNeverMissing(ex) == FALSE

\* lines 518-519: `if existing is None: return`
PresenceExistingMissing(ex) == ex = NoneVal

PresenceListStates == {"list_call", "list_sleep"}

PresenceWaitsWhileLocked == locked

\* lines 494-499: unlike check_calendar (lines 359-364), update_presence
\* starts without looking at calendar_check_lock
PresenceWaitsForGate == FALSE

\* whether the reconciliation gate was held at every step of the cycle
HeldSoFar(h) == h /\ locked

runVars == << locked, feed, downstream, prev, pc, outcome, reply, new_events,
              existing, existing_keys, events_created, idx, attempt, tries,
              fails, wait, log, issued, clean, envRes >>

\* update_presence, lines 494-502; the @tasks.loop(hours=1) starts a cycle
\* only after the previous one returned
PresenceFire ==
    /\ presence.pc = "idle"
    /\ ~PresenceWaitsForGate
    /\ \E guild \in BOOLEAN :
          IF guild
          THEN presence' = [presence EXCEPT !.pc = "list_call", !.attempt = 0,
                               !.tries = 0, !.fails = 0, !.secs = 0,
                               !.existing = NoneVal, !.outcome = "started",
                               !.held = locked]
          ELSE presence' = [presence EXCEPT !.outcome = "no_guild"]
    /\ UNCHANGED << status, runVars >>

\* lines 503-516, one pass of the loop body, and on success lines 518-536
PresenceListAttempt ==
    /\ presence.pc = "list_call"
    /\ \E r \in Responses :
        IF r = Success
        THEN \E now \in NowValues :
               /\ now >= presence.now
               /\ \E msg \in StatusMessages(downstream, now) :
                     presence' = [presence EXCEPT
                        !.pc = "publish_call", !.tries = @ + 1,
                        !.held = HeldSoFar(@),
                        !.existing = downstream, !.now = now,
                        !.status_msg = msg]
        ELSE IF HandlerRaises(r, presence.attempt)
        THEN \* lines 512-514: `return`
             presence' = [presence EXCEPT
                !.pc = "idle", !.tries = @ + 1, !.fails = @ + 1,
                !.held = HeldSoFar(@), !.outcome = "skipped"]
        ELSE presence' = [presence EXCEPT
                !.pc = "list_sleep", !.tries = @ + 1, !.fails = @ + 1,
                !.held = HeldSoFar(@),
                !.secs = HandlerWait(r, presence.attempt)]
    /\ UNCHANGED << status, runVars >>

\* lines 511/516: the sleep is over; the loop goes on, or ends with
\* `existing` still None (lines 518-519)
PresenceListBackoff ==
    /\ presence.pc = "list_sleep"
    /\ LET a == presence.attempt + 1 IN
        IF a < MaxRetries
        THEN presence' = [presence EXCEPT
                !.pc = "list_call", !.attempt = a, !.secs = 0,
                !.held = HeldSoFar(@)]
        ELSE IF PresenceExistingMissing(presence.existing)
        THEN presence' = [presence EXCEPT
                !.pc = "idle", !.secs = 0, !.outcome = "skipped",
                !.held = HeldSoFar(@)]
        ELSE \E msg \in StatusMessages(presence.existing, presence.now) :
                presence' = [presence EXCEPT
                   !.pc = "publish_call", !.secs = 0, !.status_msg = msg,
                   !.held = HeldSoFar(@)]
    /\ UNCHANGED << status, runVars >>

\* lines 536-542: bot.change_presence returns or raises HTTPException
PresencePublish ==
    /\ presence.pc = "publish_call"
    /\ \E ok \in BOOLEAN :
          IF ok
          THEN /\ status' = presence.status_msg
               /\ presence' = [presence EXCEPT !.pc = "idle",
                                                !.held = HeldSoFar(@),
                                                !.outcome = "published"]
          ELSE /\ status' = status
               /\ presence' = [presence EXCEPT !.pc = "idle",
                                                !.held = HeldSoFar(@),
                                                !.outcome = "publish_failed"]
    /\ UNCHANGED runVars

PresenceInit ==
    /\ feed = [year |-> TRUE, blocks |-> << >>]
    /\ downstream \in SUBSET PresenceEvents
    /\ Idle

PresenceNext ==
    \/ PresenceFire
    \/ PresenceListAttempt
    \/ PresenceListBackoff
    \/ PresencePublish

\* the presence task over every set of scheduled events
SpecPresence == PresenceInit /\ [][PresenceNext]_vars

\* ---------------------------------------------------------------- system

Next ==
    \/ TimerFire
    \/ \E p \in Procs : Command(p)
    \/ \E p \in Procs : Invoke(p)
    \/ \E p \in Procs : ReplySend(p)
    \/ \E p \in Procs : FetchAttempt(p)
    \/ \E p \in Procs : FetchBackoff(p)
    \/ \E p \in Procs : ListAttempt(p)
    \/ \E p \in Procs : ListBackoff(p)
    \/ \E p \in Procs : NextCandidate(p)
    \/ \E p \in Procs : CreateAttempt(p)
    \/ \E p \in Procs : CreateBackoff(p)
    \/ \E p \in Procs : NotifyAttempt(p)
    \/ \E p \in Procs : NotifyBackoff(p)
    \/ \E p \in Procs : PaceDone(p)

Spec == Init /\ [][Next]_vars

\* a step of the run of trigger p: the awaited call or sleep returns and the
\* coroutine goes on to its next suspension point
RunStep(p) ==
    \/ FetchAttempt(p)
    \/ FetchBackoff(p)
    \/ ListAttempt(p)
    \/ ListBackoff(p)
    \/ NextCandidate(p)
    \/ CreateAttempt(p)
    \/ CreateBackoff(p)
    \/ NotifyAttempt(p)
    \/ NotifyBackoff(p)
    \/ PaceDone(p)

\* the runs started by the periodic task alone: a trigger that arrives
\* during a run only logs and returns, and the manual command runs the same
\* coroutine
FairNext == TimerFire \/ \E p \in Procs : RunStep(p)

\* every awaited call and sleep ends, and the event loop resumes the
\* coroutine that waited for it
FairSpec == Init /\ [][FairNext]_vars /\ \A p \in Procs : WF_vars(RunStep(p))

\* the hourly presence task beside the timer's reconciliation runs, both
\* coroutines of one event loop
ConcurrentNext == FairNext \/ PresenceNext

\* the bot starts against a guild without events, and the page lists each
\* match once
ConcurrentInit ==
    /\ feed \in { pg \in Pages :
                    \A i, j \in 1..Len(pg.blocks) :
                        i # j => pg.blocks[i] # pg.blocks[j] }
    /\ downstream = {}
    /\ Idle

SpecConcurrent == ConcurrentInit /\ [][ConcurrentNext]_vars

\* ---------------------------------------------------------------- claims

InRun(p) == pc[p] \in RunStates

AtTrigger(p) == IF p = "timer" THEN pc[p] = "idle" ELSE pc[p] = "invoke"

CreatesOf(l, k) == Cardinality({ i \in 1..Len(l) : l[i] = <<"create", k>> })

InCandidateCall(p) ==
    pc[p] \in {"create_call", "create_sleep", "notify_call", "notify_sleep"}

\* C1: in every reachable state at most one trigger is inside the body of
\* check_calendar past the gate, whatever the interleaving of the timer and
\* the manual command, also while the run is suspended in a call or a sleep.
C1_MutualExclusion == Cardinality({ p \in Procs : InRun(p) }) <= 1

C1_Witness ==
    \E p, q \in Procs :
        /\ p # q
        /\ pc[p] \in BackoffStates
        /\ AtTrigger(q)
        /\ outcome[q] = "noop"

\* C2: a trigger that arrives while the gate is held returns at once: it
\* issues no call, enters no state of the run (and does not wait for the
\* gate), and the step in which it logs the no-op leaves the gate and every
\* index unchanged.
C2_BusyTriggerIsNoOp ==
    [][ \A p \in Procs :
          (locked /\ AtTrigger(p)) =>
             /\ pc'[p] \in {pc[p], Return(p)}
             /\ issued'[p] = issued[p]
             /\ (outcome'[p] # outcome[p] \/ pc'[p] # pc[p]) =>
                   /\ outcome'[p] = "noop"
                   /\ locked' = locked
                   /\ existing_keys' = existing_keys
                   /\ downstream' = downstream
                   /\ log' = log ]_vars

C2_Witness ==
    \E p, q \in Procs :
        /\ p # q
        /\ InRun(p)
        /\ pc[p] \in {"create_call", "notify_call", "list_call"}
        /\ pc[q] = "reply"
        /\ outcome[q] = "noop"

\* C3: within one run at most one appointment is successfully created per
\* key (title, start), whatever the candidates and the call outcomes.
C3_OneCreatePerKey ==
    \A p \in Procs : \A k \in Keys : CreatesOf(log[p], k) <= 1

\* C4: while a create or notification call for a candidate is issued or
\* retried, the candidate's key is not in the index; a candidate whose key
\* is in the index (from the list or added earlier in the run) is passed
\* over without any call.
C4_NoCreateForIndexedKey ==
    \A p \in Procs :
        InCandidateCall(p) =>
            Key(new_events[p][idx[p]]) \notin existing_keys[p]

C4_Witness ==
    \E p \in Procs :
        /\ pc[p] = "loop"
        /\ Len(new_events[p]) >= 2
        /\ idx[p] = 3
        /\ new_events[p][1] = new_events[p][2]
        /\ Key(new_events[p][1]) \notin existing[p]
        /\ log[p] = << <<"create", Key(new_events[p][1])>>,
                       <<"notify", Key(new_events[p][1])>> >>

\* C5 as stated: a run that follows a finished run, with the same candidates
\* and a list result that holds every appointment present at the end of that
\* run, issues no create call.
C5_SecondRunCreatesNothing ==
    \A p \in Procs :
        ( /\ prev.ran
          /\ InRun(p)
          /\ existing[p] # NoneVal
          /\ new_events[p] = feed.blocks
          /\ prev.down \subseteq existing[p] )
        => "create" \notin issued[p]

\* C5 (amended): if, at the end of the first run, the key of every candidate
\* was downstream (listed before the run or created by it), a second run
\* with the same candidates and a list result that holds every appointment
\* present at the end of the first run issues no create call.
C5_IdempotentOnceCreated ==
    \A p \in Procs :
        ( /\ prev.ran
          /\ InRun(p)
          /\ existing[p] # NoneVal
          /\ new_events[p] = feed.blocks
          /\ KeysOf(feed.blocks) \subseteq prev.down
          /\ prev.down \subseteq existing[p] )
        => "create" \notin issued[p]

C5_Witness ==
    \E p, q \in Procs :
        /\ p # q
        /\ outcome[q] = "completed"
        /\ Len(log[q]) > 0
        /\ prev.ran
        /\ KeysOf(feed.blocks) \subseteq prev.down
        /\ pc[p] = "loop"
        /\ existing[p] # NoneVal
        /\ prev.down \subseteq existing[p]
        /\ Len(new_events[p]) > 0
        /\ idx[p] > Len(new_events[p])
        /\ "create" \notin issued[p]

\* C6: a retry loop of create_event_safely, send_announcement_safely or
\* fetch_static_html_with_retry whose MaxRetries attempts all failed ends by
\* raising, never by returning.
C6_ExhaustionRaises ==
    \A p \in Procs :
        ( /\ envRes[p].env \in {"create", "notify", "fetch"}
          /\ envRes[p].fails = MaxRetries )
        => envRes[p].how = "raised"

\* C7: a retry loop that ends without success has invoked the wrapped call
\* exactly MaxRetries times, all failed; one that ends with success has
\* invoked it once more than it failed and at most MaxRetries times; a
\* rate-limited failure uses up an attempt like any other.
C7_RetryBudget ==
    \A p \in Procs :
        envRes[p].env # "none" =>
            IF envRes[p].how = "ok"
            THEN /\ envRes[p].tries = envRes[p].fails + 1
                 /\ envRes[p].tries <= MaxRetries
            ELSE /\ envRes[p].tries = MaxRetries
                 /\ envRes[p].fails = MaxRetries

C7_Witness ==
    \E p, q \in Procs :
        /\ envRes[p].env = "fetch"
        /\ envRes[p].how = "raised"
        /\ envRes[p].tries = MaxRetries
        /\ envRes[q].env = "create"
        /\ envRes[q].how = "ok"
        /\ envRes[q].tries = MaxRetries

\* C8: the sleep between failed attempt i and attempt i+1 lasts the advised
\* delay when the failure was a 429 carrying one, and 2^i seconds otherwise.
C8_BackoffDuration ==
    \A p \in Procs :
        (pc[p] \in BackoffStates /\ attempt[p] < MaxRetries - 1) =>
            wait[p].secs =
                IF wait[p].fail.status = 429 /\ wait[p].fail.advised
                THEN wait[p].fail.retry_after
                ELSE 2 ^ attempt[p]

C8_Witness ==
    \E p \in Procs :
        /\ pc[p] = "create_sleep"
        /\ attempt[p] = 1
        /\ wait[p].fail.status = 429
        /\ wait[p].fail.advised
        /\ wait[p].secs = 5

\* C9: the gate is held exactly while some trigger is inside a run; every
\* way a run ends leaves it unheld.
C9_GateHeldIffRunning == locked <=> (\E p \in Procs : InRun(p))

C9_Witness ==
    \E p, q \in Procs :
        /\ ~locked
        /\ outcome[p] = "stopped"
        /\ envRes[p].env = "fetch"
        /\ outcome[q] = "aborted"
        /\ prev.ran

\* C10: once the fetch of the existing events has failed MaxRetries times,
\* the run is over and has issued no create and no notification call.
C10_ListExhaustionStopsRun ==
    \A p \in Procs :
        ( /\ envRes[p].env = "list"
          /\ envRes[p].fails = MaxRetries )
        => /\ ~InRun(p)
           /\ "create" \notin issued[p]
           /\ "notify" \notin issued[p]

C10_Witness ==
    \E p \in Procs :
        /\ envRes[p].env = "list"
        /\ envRes[p].how = "none"
        /\ envRes[p].fails = MaxRetries
        /\ outcome[p] = "stopped"
        /\ Len(new_events[p]) > 0
        /\ KeysOf(new_events[p]) \cap downstream = {}

CandidateCallStates ==
    {"create_call", "create_sleep", "notify_call", "notify_sleep"}

CreateCount(l) == Cardinality({ i \in 1..Len(l) : l[i][1] = "create" })

DistinctKeys(s) ==
    \A i, j \in 1..Len(s) : i # j => Key(s[i]) # Key(s[j])

\* create(c_1), notify(c_1), create(c_2), notify(c_2), ...
ExpectedLog(s) ==
    [ i \in 1..(2 * Len(s)) |->
        IF i % 2 = 1
        THEN <<"create", Key(s[(i + 1) \div 2])>>
        ELSE <<"notify", Key(s[i \div 2])>> ]

IsPrefix(a, b) ==
    /\ Len(a) <= Len(b)
    /\ \A i \in 1..Len(a) : a[i] = b[i]

\* C11: once the candidate loop has been reached, a failed create or a
\* failed notification moves the loop to the next candidate only; the run
\* ends only past the last candidate and by normal completion; no
\* appointment is removed from downstream.
C11_FailuresContained ==
    [][ \A p \in Procs :
          (pc[p] \in CandidateCallStates \cup {"loop", "pace"}) =>
             /\ downstream \subseteq downstream'
             /\ idx'[p] \in {idx[p], idx[p] + 1}
             /\ pc'[p] \notin RunStates =>
                   /\ outcome'[p] = "completed"
                   /\ idx[p] > Len(new_events[p]) ]_vars

C11_Witness ==
    \E p \in Procs :
        /\ outcome[p] = "completed"
        /\ pc[p] \notin RunStates
        /\ Len(new_events[p]) = 2
        /\ existing[p] = {}
        /\ Key(new_events[p][1]) # Key(new_events[p][2])
        /\ log[p] = << <<"create", Key(new_events[p][1])>>,
                       <<"create", Key(new_events[p][2])>>,
                       <<"notify", Key(new_events[p][2])>> >>
        /\ Key(new_events[p][1]) \in downstream

\* C12: with an empty list result, candidates of distinct keys and no failed
\* call, the effects of the run are create(c_1), notify(c_1), create(c_2),
\* ... in source order, one after the other, and the run completes with
\* exactly the candidates' keys in the index and as many events counted.
C12_CleanRunInOrder ==
    \A p \in Procs :
        ( /\ existing[p] = {}
          /\ clean[p]
          /\ DistinctKeys(new_events[p])
          /\ outcome[p] \in {"started", "completed"} )
        => /\ IsPrefix(log[p], ExpectedLog(new_events[p]))
           /\ outcome[p] = "completed" =>
                 /\ log[p] = ExpectedLog(new_events[p])
                 /\ existing_keys[p] = KeysOf(new_events[p])
                 /\ events_created[p] = Len(new_events[p])

C12_Witness ==
    \E p \in Procs :
        /\ outcome[p] = "completed"
        /\ clean[p]
        /\ existing[p] = {}
        /\ Len(new_events[p]) = 2
        /\ DistinctKeys(new_events[p])
        /\ Len(log[p]) = 4
        /\ existing_keys[p] = Keys

\* C13: the reply of a manual refresh is "complete" only when the run it
\* invoked completed normally (or the call was a no-op); a run that aborted
\* or stopped early is answered with the failure message.
C13_ReplyMatchesOutcome ==
    \A p \in Procs :
        (pc[p] = "idle" /\ reply[p] = "complete") =>
            outcome[p] \in {"completed", "noop"}

\* C14: the count reported on normal completion is the number of create
\* calls that succeeded in the run.
C14_CountIsCreates ==
    \A p \in Procs :
        outcome[p] = "completed" => events_created[p] = CreateCount(log[p])

\* C16: whenever the loop turns to its next candidate, the index holds the
\* key of every appointment created so far in the run.
C16_IndexHoldsCreated ==
    \A p \in Procs :
        pc[p] = "loop" =>
            \A k \in Keys : CreatesOf(log[p], k) > 0 => k \in existing_keys[p]

\* C18: the processing of a candidate for which a create call was issued
\* always ends in the 1-second sleep, whatever its outcome.
C18_DelayAfterEveryCandidate ==
    [][ \A p \in Procs :
          (pc[p] \in CandidateCallStates /\ pc'[p] \notin CandidateCallStates)
             => pc'[p] = "pace" ]_vars

\* C19: when the source fetch has failed on all attempts, or the parser
\* found no year, the run is over, it has issued no call but the fetch, no
\* failure is reported to the caller, and the gate is free for the next
\* trigger (held only if another trigger has entered since).
C19_FetchFailureAbortsRun ==
    \A p \in Procs :
        ( /\ envRes[p].env = "fetch"
          /\ \/ envRes[p].how = "raised"
             \/ envRes[p].how = "ok" /\ ~feed.year )
        => /\ pc[p] \notin RunStates
           /\ issued[p] = {"fetch"}
           /\ reply[p] # "failed"
           /\ locked => \E q \in Procs \ {p} : InRun(q)

C19_Witness ==
    \E p, q \in Procs :
        /\ p # q
        /\ envRes[p].env = "fetch"
        /\ envRes[p].how = "raised"
        /\ outcome[p] = "aborted"
        /\ issued[p] = {"fetch"}
        /\ prev.ran
        /\ pc[q] = "list_call"

\* C20: the first notification call for a candidate follows the successful
\* create call for the same candidate at once; notification calls are issued
\* nowhere else, and a posted notification follows the creation of the same
\* key in the run's effects.
C20_NotifyOnlyAfterCreate ==
    [][ \A p \in Procs :
          /\ (pc'[p] = "notify_call" /\ pc[p] \notin {"notify_call", "notify_sleep"}) =>
                /\ pc[p] = "create_call"
                /\ envRes'[p].env = "create"
                /\ envRes'[p].how = "ok"
                /\ idx'[p] = idx[p]
                /\ log'[p] = Append(log[p], <<"create", Key(new_events[p][idx[p]])>>)
          /\ ("notify" \in issued'[p] /\ "notify" \notin issued[p]) =>
                pc[p] = "notify_call"
          /\ (Len(log'[p]) > Len(log[p]) /\ log'[p][Len(log'[p])][1] = "notify") =>
                /\ pc[p] = "notify_call"
                /\ Len(log[p]) > 0
                /\ log[p][Len(log[p])] = <<"create", log'[p][Len(log'[p])][2]>> ]_vars

C20_Witness ==
    \E p \in Procs :
        /\ pc[p] = "loop"
        /\ envRes[p].env = "create"
        /\ envRes[p].how = "none"
        /\ envRes[p].fails = MaxRetries
        /\ "create" \in issued[p]
        /\ "notify" \notin issued[p]

\* C17: under the fair scheduling of FairSpec every run that has started
\* ends, whatever the failures of its calls.
C17_RunTerminates == \A p \in Procs : InRun(p) ~> ~InRun(p)

C17_Witness ==
    \E p \in Procs :
        /\ outcome[p] = "completed"
        /\ pc[p] \notin RunStates
        /\ ~locked
        /\ ~clean[p]
        /\ Len(new_events[p]) = 2
        /\ idx[p] = 3
        /\ "notify" \in issued[p]
        /\ events_created[p] = 0

C22_ExhaustionSkipsCycle ==
    [][ ( /\ presence.pc \in PresenceListStates
          /\ presence' # presence
          /\ presence'.fails = MaxRetries )
        => /\ status' = status
           /\ presence'.pc \in {"list_sleep", "idle"}
           /\ presence'.pc = "idle" => presence'.outcome = "skipped" ]_vars

C22_Witness ==
    /\ presence.pc = "idle"
    /\ presence.fails = MaxRetries
    /\ presence.outcome = "skipped"
    /\ status # NoStatus

\* C21: the presence reporter neither waits for nor takes the reconciliation
\* gate and issues no create or announcement: an idle reporter can start a
\* cycle whether or not a run holds the gate, and no step of a cycle changes
\* the gate, the run's index, the calls the run has issued or the downstream
\* events.
C21_PresenceIgnoresGate ==
    /\ [](presence.pc = "idle" => ENABLED PresenceFire)
    /\ [][ presence' # presence
            => UNCHANGED << locked, existing_keys, issued, log, downstream,
                            events_created >> ]_vars

C21_Witness ==
    /\ presence.outcome = "published"
    /\ presence.pc = "idle"
    /\ presence.held
    /\ locked
    /\ pc["timer"] = "notify_call"
    /\ existing_keys["timer"] # {}

====
